---- MODULE Spec2Model ----
(***************************************************************************)
(* Discharge-summary provenance pipeline of backend/core:                  *)
(*   ollama_service.py  generate_discharge_summary_from_object,            *)
(*                      OllamaService.generate_patient_summary_with_sources*)
(*                      OllamaService._clean_document_formatting,          *)
(*                      OllamaService._inject_source_tags_fallback         *)
(*   services.py        TemplateProcessingService._clean_template_content  *)
(*                                                                         *)
(* Python strings are modelled as sequences of one-character strings; the  *)
(* regular expressions of the source are modelled by operators that scan   *)
(* such a sequence the way re.sub / re.findall scan it (leftmost match,    *)
(* greedy quantifiers, backtracking where the pattern allows it).  Values  *)
(* kept in the state are converted back to strings so that traces read as  *)
(* the program's values.                                                   *)
(***************************************************************************)
EXTENDS Integers, Sequences, FiniteSets, TLC

VARIABLES
    pc,             \* position of the running operation
    patient_data,   \* argument of generate_patient_summary_with_sources
    documents,      \* the `documents` list built at lines 198-205
    corpus,         \* documents_text, the result of _to_text
    llm_calls,      \* number of chain.invoke calls made by this invocation
    llm_result,     \* how chain.invoke ended: "text" or "exception"
    raw_text,       \* what generate_discharge_summary_from_object returned
    fallback_ran,   \* whether _inject_source_tags_fallback was invoked
    tagged_text,    \* `summary` after the marker check (lines 263-268)
    pooled,         \* `matches` after the loop of lines 281-285
    matches,        \* `matches` after the de-duplication of lines 288-294
    outcome,        \* the mapping returned to the caller
    fn_in,          \* argument of a function applied on its own
    fn_once,        \* the function applied once
    fn_twice,       \* the function applied to its own result
    workers,        \* how many requests the server handles at a time
    patient_documents,  \* the stored row's patient.documents
    requests        \* the requests to the document views, by arrival

vars == <<pc, patient_data, documents, corpus, llm_calls, llm_result, raw_text,
          fallback_ran, tagged_text, pooled, matches, outcome, fn_in, fn_once,
          fn_twice, workers, patient_documents, requests>>

viewVars == <<workers, patient_documents, requests>>

\* No server runs: the state of the views while a function of the core is
\* exercised on its own.
ViewsIdle ==
    /\ workers = 0
    /\ patient_documents = <<>>
    /\ requests = <<>>

(***************************************************************************)
(* Strings                                                                 *)
(***************************************************************************)

\* The characters of a string, in order.
Chars(s) == [i \in 1..Len(s) |-> SubSeq(s, i, i)]

\* The string made of the characters cs[lo..hi] (halving keeps the
\* evaluation shallow).
RECURSIVE StrRange(_, _, _)
StrRange(cs, lo, hi) ==
    IF lo > hi THEN ""
    ELSE IF lo = hi THEN cs[lo]
    ELSE LET mid == (lo + hi) \div 2
         IN  StrRange(cs, lo, mid) \o StrRange(cs, mid + 1, hi)

Str(cs) == StrRange(cs, 1, Len(cs))

\* The concatenation of the sequences parts[lo..hi].
RECURSIVE ConcatRange(_, _, _)
ConcatRange(parts, lo, hi) ==
    IF lo > hi THEN <<>>
    ELSE IF lo = hi THEN parts[lo]
    ELSE LET mid == (lo + hi) \div 2
         IN  ConcatRange(parts, lo, mid) \o ConcatRange(parts, mid + 1, hi)

Concat(parts) == ConcatRange(parts, 1, Len(parts))

MinOf(S) == CHOOSE i \in S : \A j \in S : i <= j
MaxOf(S) == 0 - MinOf({0 - i : i \in S})

UpperLetters == Chars("ABCDEFGHIJKLMNOPQRSTUVWXYZ")
LowerLetters == Chars("abcdefghijklmnopqrstuvwxyz")
UpperSet == {UpperLetters[i] : i \in 1..Len(UpperLetters)}

LowerOf == [c \in UpperSet |->
              LowerLetters[CHOOSE i \in 1..Len(UpperLetters) : UpperLetters[i] = c]]

\* str.lower() on one character / on a string
LowerChar(c) == IF c \in UpperSet THEN LowerOf[c] ELSE c
Lower(cs) == [i \in 1..Len(cs) |-> LowerChar(cs[i])]

\* What \s matches and str.strip() removes.
Whitespace == {" ", "\n", "\t", "\r"}

\* [A-Z&]
TagCodeChars == UpperSet \cup {"&"}

\* Index of the last character of the maximal run of characters of `cls`
\* that starts at i; i - 1 when s[i] is not in cls (a greedy cls*).
RECURSIVE RunEnd(_, _, _)
RunEnd(s, i, cls) ==
    IF i > Len(s) THEN Len(s)
    ELSE IF s[i] \notin cls THEN i - 1
    ELSE RunEnd(s, i + 1, cls)

\* Index of the first character of the maximal run of `cls` that ends at i.
RECURSIVE RunStart(_, _, _)
RunStart(s, i, cls) ==
    IF i < 1 THEN 1
    ELSE IF s[i] \notin cls THEN i + 1
    ELSE RunStart(s, i - 1, cls)

\* First index >= i holding character c, Len(s) + 1 when there is none.
FindChar(s, i, c) ==
    LET hits == {j \in i..Len(s) : s[j] = c}
    IN  IF hits = {} THEN Len(s) + 1 ELSE MinOf(hits)

\* str.strip()
Strip(s) ==
    LET a == RunEnd(s, 1, Whitespace) + 1
        b == RunStart(s, Len(s), Whitespace) - 1
    IN  IF a > Len(s) THEN <<>> ELSE SubSeq(s, a, b)

\* s.split(sep) for a one-character sep: the k-th part lies between the
\* (k-1)-th and the k-th occurrence of sep.
Split(s, sep) ==
    LET hits == {j \in 1..Len(s) : s[j] = sep}
        cut == [k \in 0..(Cardinality(hits) + 1) |->
                  IF k = 0 THEN 0
                  ELSE IF k = Cardinality(hits) + 1 THEN Len(s) + 1
                  ELSE CHOOSE j \in hits :
                           Cardinality({h \in hits : h < j}) = k - 1]
    IN  [k \in 1..(Cardinality(hits) + 1) |->
            SubSeq(s, cut[k - 1] + 1, cut[k] - 1)]

\* sep.join(parts)
Join(parts, sep) ==
    Concat([k \in 1..Len(parts) |->
               IF k = 1 THEN parts[k] ELSE sep \o parts[k]])

\* `needle in s`
Contains(s, needle) ==
    \E i \in 1..(Len(s) - Len(needle) + 1) :
        s[i] = needle[1] /\ SubSeq(s, i, i + Len(needle) - 1) = needle

\* s.startswith(prefix)
StartsWith(s, prefix) ==
    Len(s) >= Len(prefix) /\ SubSeq(s, 1, Len(prefix)) = prefix

(***************************************************************************)
(* OllamaService._clean_document_formatting                                *)
(***************************************************************************)

\* re.sub(r'<cls>{min,}', repl, s) from position i: every maximal run of at
\* least `min` characters of `cls` is replaced by `repl`; the leftmost run
\* is replaced and the scan goes on behind it.
RECURSIVE SubRunsFrom(_, _, _, _, _)
SubRunsAt(s, i, cls, min, repl, starts) ==
    IF starts = {} THEN SubSeq(s, i, Len(s))
    ELSE SubSeq(s, i, MinOf(starts) - 1) \o repl
             \o SubRunsFrom(s, RunEnd(s, MinOf(starts), cls) + 1, cls, min, repl)

SubRunsFrom(s, i, cls, min, repl) ==
    SubRunsAt(s, i, cls, min, repl,
              {j \in i..Len(s) :
                  s[j] \in cls /\ RunEnd(s, j, cls) - j + 1 >= min})

SubRuns(s, cls, min, repl) == SubRunsFrom(s, 1, cls, min, repl)

BulletChars == {"*", "-", "+"}

\* ^ under re.MULTILINE
AtLineStart(s, i) == i = 1 \/ s[i - 1] = "\n"

\* r'^\s*[\*\-\+]\s+' tried at position i: index of the last character
\* matched, 0 when it does not match there.
BulletMatchEnd(s, i) ==
    LET b == RunEnd(s, i, Whitespace) + 1
    IN  IF /\ AtLineStart(s, i)
           /\ b + 1 <= Len(s)
           /\ s[b] \in BulletChars
           /\ s[b + 1] \in Whitespace
        THEN RunEnd(s, b + 1, Whitespace)
        ELSE 0

\* re.sub(r'^\s*[\*\-\+]\s+', '', s, flags=re.MULTILINE) from position i:
\* the leftmost match is removed and the scan goes on behind it.
RECURSIVE StripBullets(_, _)
StripBullets(s, i) ==
    LET starts == {j \in i..Len(s) : AtLineStart(s, j) /\ BulletMatchEnd(s, j) > 0}
    IN  IF starts = {} THEN SubSeq(s, i, Len(s))
        ELSE SubSeq(s, i, MinOf(starts) - 1)
                 \o StripBullets(s, BulletMatchEnd(s, MinOf(starts)) + 1)

\* lines = text.split('\n'); [line.strip() for line in lines]; '\n'.join
StripLines(s) ==
    LET lines == Split(s, "\n")
    IN  Join([k \in 1..Len(lines) |-> Strip(lines[k])], <<"\n">>)

MinRun == 3
MinSpaces == 2

_clean_document_formatting(text) ==
    LET t1 == SubRuns(text, {"*"}, MinRun, <<>>)
        t2 == StripBullets(t1, 1)
        t3 == SubRuns(t2, {"-"}, MinRun, <<>>)
        t4 == SubRuns(t3, {"="}, MinRun, <<>>)
        t5 == SubRuns(t4, {"_"}, MinRun, <<>>)
        t6 == SubRuns(t5, {" "}, MinSpaces, <<" ">>)
        t7 == SubRuns(t6, {"\n"}, MinRun, <<"\n", "\n">>)
        t8 == StripLines(t7)
    IN  Strip(t8)

(***************************************************************************)
(* OllamaService._inject_source_tags_fallback                              *)
(***************************************************************************)

\* One row of patterns_to_tag: r'<label><opt>?:\s*([^\n]+)' and its code.
\* The label is kept in lower case: the patterns are applied with
\* re.IGNORECASE.
Pat(label, code) ==
    [label |-> Lower(Chars(label)), opt |-> "", code |-> Chars(code)]
PatOpt(label, optional, code) ==
    [label |-> Lower(Chars(label)), opt |-> optional, code |-> Chars(code)]

patterns_to_tag == <<
    Pat("Patient Name", "PROG"),
    Pat("Name", "PROG"),
    Pat("Date of Birth", "PROG"),
    Pat("DOB", "PROG"),
    Pat("Age", "PROG"),
    Pat("Gender", "PROG"),
    Pat("Room", "PROG"),
    Pat("Bed", "PROG"),
    Pat("Blood Pressure", "VITALS"),
    Pat("BP", "VITALS"),
    Pat("Heart Rate", "VITALS"),
    Pat("HR", "VITALS"),
    Pat("Temperature", "VITALS"),
    Pat("Temp", "VITALS"),
    Pat("Respiratory Rate", "VITALS"),
    Pat("RR", "VITALS"),
    Pat("Oxygen Saturation", "VITALS"),
    Pat("SpO2", "VITALS"),
    PatOpt("Medication", "s", "MED"),
    Pat("Medication List", "MED"),
    Pat("Current Medications", "MED"),
    Pat("Drugs", "MED"),
    PatOpt("Lab Result", "s", "LAB"),
    Pat("Laboratory", "LAB"),
    Pat("Blood Work", "LAB"),
    Pat("Troponin", "LAB"),
    Pat("Creatinine", "LAB"),
    Pat("Glucose", "LAB"),
    Pat("Hemoglobin", "LAB"),
    Pat("White Blood Cell", "LAB"),
    Pat("WBC", "LAB"),
    Pat("Imaging", "RAD"),
    Pat("X-ray", "RAD"),
    Pat("Chest X-ray", "RAD"),
    Pat("CXR", "RAD"),
    Pat("CT", "RAD"),
    Pat("MRI", "RAD"),
    Pat("Ultrasound", "RAD"),
    Pat("ECG", "RAD"),
    Pat("EKG", "RAD"),
    Pat("Chief Complaint", "ED"),
    Pat("CC", "ED"),
    Pat("History of Present Illness", "H&P"),
    Pat("HPI", "H&P"),
    Pat("Physical Examination", "PE"),
    Pat("PE", "PE"),
    Pat("Assessment and Plan", "PROG"),
    Pat("A&P", "PROG"),
    Pat("Plan", "PROG"),
    Pat("Assessment", "PROG"),
    Pat("Discharge Instructions", "DISCH"),
    Pat("Discharge Plan", "DISCH"),
    Pat("Follow-up", "DISCH"),
    Pat("Follow up", "DISCH"),
    Pat("Procedure", "SURG"),
    Pat("Surgery", "SURG"),
    Pat("Operation", "SURG"),
    Pat("PCI", "SURG"),
    Pat("Catheterization", "SURG"),
    Pat("Consultation", "CONSULT"),
    Pat("Consult", "CONSULT"),
    Pat("Specialist", "CONSULT"),
    Pat("Nursing Care", "NURSING"),
    Pat("Nursing Plan", "NURSING"),
    Pat("Care Plan", "NURSING")
>>

NotDocumented == Chars("Not documented")

\* The label part of a row tried at position i of t: index of the
\* character before the colon, 0 when the label and its colon do not match
\* there.  The optional character is greedy.
LabelEnd(t, i, p) ==
    LET e == i + Len(p.label) - 1
    IN  IF i < 1 \/ e + 1 > Len(t) THEN 0
        ELSE IF LowerChar(t[i]) # p.label[1] THEN 0
        ELSE IF Lower(SubSeq(t, i, e)) # p.label THEN 0
        ELSE IF p.opt # "" /\ e + 2 <= Len(t) /\ LowerChar(t[e + 1]) = p.opt
                /\ t[e + 2] = ":"
        THEN e + 1
        ELSE IF t[e + 1] = ":" THEN e
        ELSE 0

\* \s*([^\n]+) after the label that ends at le (its colon is at le + 1):
\* \s* is greedy and gives characters back until the group can take one
\* character that is not a newline.  Index of the first character of the
\* group, 0 when there is none or the label did not match.
GroupStart(t, le) ==
    IF le = 0 THEN 0
    ELSE LET ok == {g \in (le + 2)..(RunEnd(t, le + 2, Whitespace) + 1) :
                       g <= Len(t) /\ t[g] # "\n"}
         IN  IF ok = {} THEN 0 ELSE MaxOf(ok)

NoMatch == [start |-> 0, group_start |-> 0, end |-> 0]

\* The match that starts at i and whose group starts at gs: [^\n]+ runs to
\* the end of the line.
MatchFrom(t, i, gs) ==
    IF gs = 0 THEN NoMatch
    ELSE [start |-> i, group_start |-> gs, end |-> FindChar(t, gs, "\n") - 1]

\* A row tried at position i: [start, group_start, end] of the match, or
\* NoMatch.
PatternMatchAt(t, i, p) == MatchFrom(t, i, GroupStart(t, LabelEnd(t, i, p)))

\* The positions of the colons of t.
Colons(t) == {c \in 1..Len(t) : t[c] = ":"}

\* The positions from i on where a row can match at all: its label, with or
\* without the optional character, ends right before a colon of t.
CandidateStarts(colons, i, p) ==
    {j \in {c - Len(p.label) - k :
                c \in colons, k \in IF p.opt = "" THEN {0} ELSE {0, 1}} :
        j >= i}

\* The match at the leftmost of the given start positions.
LeftmostMatch(t, p, starts) ==
    IF starts = {} THEN NoMatch ELSE PatternMatchAt(t, MinOf(starts), p)

\* re.search from position i: the leftmost match of the row.
NextPatternMatch(t, colons, i, p) ==
    LeftmostMatch(t, p, {j \in CandidateStarts(colons, i, p) :
                            PatternMatchAt(t, j, p) # NoMatch})

\* The tagged form of a match: label, content and tag code.
Tagged(label, content, group0, source_tag) ==
    IF content # <<>> /\ content # NotDocumented
    THEN label \o Chars(": [") \o source_tag \o Chars(": ") \o content
               \o <<"]">>
    ELSE group0

\* replace_with_tag(match)
replace_with_tag(t, m, source_tag) ==
    Tagged(SubSeq(t, m.start, FindChar(t, m.start, ":") - 1),
           Strip(SubSeq(t, m.group_start, m.end)),
           SubSeq(t, m.start, m.end), source_tag)

\* re.sub(pattern, replace_with_tag, t, flags=re.IGNORECASE) from position
\* i; SubMatch is the text from i on, given the next match m.
RECURSIVE SubPattern(_, _, _, _)
SubMatch(t, colons, i, p, m) ==
    IF m.start = 0 THEN SubSeq(t, i, Len(t))
    ELSE SubSeq(t, i, m.start - 1) \o replace_with_tag(t, m, p.code)
             \o SubPattern(t, colons, m.end + 1, p)

SubPattern(t, colons, i, p) ==
    SubMatch(t, colons, i, p, NextPatternMatch(t, colons, i, p))

\* for pattern, source_tag in patterns_to_tag[lo..hi]:
\*     modified_summary = re.sub(pattern, replace_with_tag, modified_summary)
\* (the rows are applied in table order; halving the range, and computing
\* the left half before the right half is entered, keeps the evaluation
\* shallow; the colons are looked up again only when a row changed the
\* text)
RECURSIVE ApplyPatterns(_, _, _, _)
ApplyRows(t, colons, left, lo, hi) ==
    IF left = t THEN ApplyPatterns(t, colons, lo, hi)
    ELSE ApplyPatterns(left, Colons(left), lo, hi)

ApplyPatterns(t, colons, lo, hi) ==
    IF lo = hi THEN SubPattern(t, colons, 1, patterns_to_tag[lo])
    ELSE ApplyRows(t, colons, ApplyPatterns(t, colons, lo, (lo + hi) \div 2),
                   (lo + hi) \div 2 + 1, hi)

_inject_source_tags_fallback(summary) ==
    ApplyPatterns(summary, Colons(summary), 1, Len(patterns_to_tag))

(***************************************************************************)
(* TemplateProcessingService._clean_template_content                       *)
(***************************************************************************)

\* One entry of `replacements`: a literal placeholder (kept in lower case:
\* the substitution is made with re.IGNORECASE) and what it is replaced by.
Repl(placeholder, replacement) ==
    [pattern |-> Lower(Chars(placeholder)), replacement |-> Chars(replacement)]

replacements == <<
    Repl("[Patient Name]",
         "[EXTRACT PATIENT NAME FROM DOCUMENTS]"),
    Repl("[patient_name]",
         "[EXTRACT PATIENT NAME FROM DOCUMENTS]"),
    Repl("[Diagnostic test]",
         "[LIST ALL DIAGNOSTIC TESTS PERFORMED FROM DOCUMENTS]"),
    Repl("[diagnostic_test]",
         "[LIST ALL DIAGNOSTIC TESTS PERFORMED FROM DOCUMENTS]"),
    Repl("[Any additional treatments]",
         "[LIST ALL TREATMENTS GIVEN FROM DOCUMENTS]"),
    Repl("[any_additional_treatments]",
         "[LIST ALL TREATMENTS GIVEN FROM DOCUMENTS]"),
    Repl("{patient_name}",
         "[EXTRACT PATIENT NAME FROM DOCUMENTS]"),
    Repl("{date_of_birth}",
         "[EXTRACT DATE OF BIRTH FROM DOCUMENTS]"),
    Repl("{admission_date}",
         "[EXTRACT ADMISSION DATE FROM DOCUMENTS]"),
    Repl("{room_number}",
         "[EXTRACT ROOM/BED NUMBER FROM DOCUMENTS]"),
    Repl("{occupant_type}",
         "[EXTRACT OCCUPANT TYPE (Room/Bed/ER Patient) FROM DOCUMENTS]"),
    Repl("{occupant_value}",
         "[EXTRACT ROOM/BED NUMBER OR ER DESIGNATION FROM DOCUMENTS]"),
    Repl("{current_date}",
         "[CURRENT DATE]"),
    Repl("{primary_diagnosis}",
         "[EXTRACT PRIMARY DIAGNOSIS FROM DOCUMENTS]"),
    Repl("{secondary_diagnoses}",
         "[EXTRACT SECONDARY DIAGNOSES FROM DOCUMENTS]"),
    Repl("{procedures}",
         "[LIST ALL PROCEDURES PERFORMED FROM DOCUMENTS]"),
    Repl("{hospital_course}",
         "[DESCRIBE HOSPITAL STAY FROM DOCUMENTS]"),
    Repl("{medications}",
         "[LIST ALL MEDICATIONS FROM DOCUMENTS]"),
    Repl("{discharge_instructions}",
         "[EXTRACT DISCHARGE INSTRUCTIONS FROM DOCUMENTS]"),
    Repl("{follow_up}",
         "[EXTRACT FOLLOW-UP PLANS FROM DOCUMENTS]"),
    Repl("{discharge_condition}",
         "[DESCRIBE CONDITION AT DISCHARGE FROM DOCUMENTS]"),
    Repl("{doctor_name}",
         "[EXTRACT PHYSICIAN NAME FROM DOCUMENTS]")
>>

ImportantMarker == Chars("IMPORTANT:")

DirectiveBlock ==
    Chars("IMPORTANT INSTRUCTIONS:\n")
    \o Chars("Replace all bracketed text with actual information extracted from the patient's medical documents. \n")
    \o Chars("If information is not available, state \"Not documented\".\n\n")

\* re.sub(pattern, replacement, t, flags=re.IGNORECASE) from position i for
\* a literal pattern: leftmost matches, not overlapping.
RECURSIVE SubLiteral(_, _, _)
SubLiteral(t, i, r) ==
    LET n == Len(r.pattern)
        starts == {j \in i..(Len(t) - n + 1) :
                      /\ LowerChar(t[j]) = r.pattern[1]
                      /\ Lower(SubSeq(t, j, j + n - 1)) = r.pattern}
    IN  IF starts = {} THEN SubSeq(t, i, Len(t))
        ELSE SubSeq(t, i, MinOf(starts) - 1) \o r.replacement
                 \o SubLiteral(t, MinOf(starts) + n, r)

\* for pattern, replacement in replacements.items()[lo..hi]:
\*     cleaned_content = re.sub(pattern, replacement, cleaned_content, ...)
RECURSIVE ApplyReplacements(_, _, _)
ApplyReplacements(t, lo, hi) ==
    IF lo = hi THEN SubLiteral(t, 1, replacements[lo])
    ELSE LET mid == (lo + hi) \div 2
             left == ApplyReplacements(t, lo, mid)
         IN  IF left = t THEN ApplyReplacements(t, mid + 1, hi)
             ELSE ApplyReplacements(left, mid + 1, hi)

\* A variant of the normalization that trims the text it returns.
_clean_template_content_trimmed(template_content) ==
    LET cleaned_content ==
            Strip(ApplyReplacements(template_content, 1, Len(replacements)))
    IN  IF ~Contains(cleaned_content, ImportantMarker)
        THEN DirectiveBlock \o cleaned_content
        ELSE cleaned_content

_clean_template_content(template_content) ==
    LET cleaned_content ==
            ApplyReplacements(template_content, 1, Len(replacements))
    IN  IF ~Contains(cleaned_content, ImportantMarker)
        THEN DirectiveBlock \o cleaned_content
        ELSE cleaned_content

(***************************************************************************)
(* generate_discharge_summary_from_object                                  *)
(***************************************************************************)

Digits == Chars("0123456789")

\* str(n) for n >= 0
RECURSIVE DecimalString(_)
DecimalString(n) ==
    IF n < 10 THEN <<Digits[n + 1]>>
    ELSE DecimalString(n \div 10) \o <<Digits[(n % 10) + 1]>>

UpperOf == [c \in {LowerLetters[i] : i \in 1..Len(LowerLetters)} |->
              UpperLetters[CHOOSE i \in 1..Len(LowerLetters) : LowerLetters[i] = c]]
Letters == UpperSet \cup DOMAIN UpperOf

\* str.title(): the first letter of every run of letters in upper case,
\* the other letters in lower case.
Title(cs) ==
    [i \in 1..Len(cs) |->
        IF cs[i] \notin Letters THEN cs[i]
        ELSE IF i = 1 \/ cs[i - 1] \notin Letters
        THEN (IF cs[i] \in DOMAIN UpperOf THEN UpperOf[cs[i]] ELSE cs[i])
        ELSE LowerChar(cs[i])]

\* s.replace(a, b) for one-character a and b
ReplaceChar(cs, a, b) == [i \in 1..Len(cs) |-> IF cs[i] = a THEN b ELSE cs[i]]

\* The keys _to_text tries on a document, in order.
text_keys == <<"content", "text", "body", "note", "title">>

common_fields == <<
    "history", "presenting_complaint", "assessment", "plan", "medications",
    "allergies", "diagnoses", "labs", "imaging", "vitals", "procedures",
    "progress_notes", "discharge_instructions">>

\* isinstance(val, str) and val.strip(), for item.get(key)
HasText(item, key) ==
    key \in DOMAIN item /\ Strip(Chars(item[key])) # <<>>

\* The block _to_text collects for documents[idx] (a dict), <<>> when no
\* key of the document holds text.
DocumentBlock(item, idx) ==
    LET usable == {k \in 1..Len(text_keys) : HasText(item, text_keys[k])}
        val == Chars(item[text_keys[MinOf(usable)]])
        doc_title == IF "title" \in DOMAIN item THEN Chars(item.title)
                     ELSE Chars("Document ") \o DecimalString(idx)
        doc_type == IF "type" \in DOMAIN item THEN Chars(item.type)
                    ELSE Chars("Unknown Type")
    IN  IF usable = {} THEN <<>>
        ELSE Chars("===== ") \o doc_title \o Chars(" (") \o doc_type
                 \o Chars(") =====\n") \o Strip(val)

\* The block _to_text collects for a root field, <<>> when it holds no text.
FieldBlock(record, field) ==
    IF ~HasText(record, field) THEN <<>>
    ELSE Chars("===== ") \o Title(ReplaceChar(Chars(field), "_", " "))
             \o Chars(" =====\n") \o Strip(Chars(record[field]))

\* The elements of a sequence that are not <<>>, in order.
NonEmpty(blocks) ==
    LET keep == {k \in 1..Len(blocks) : blocks[k] # <<>>}
    IN  [n \in 1..Cardinality(keep) |->
            blocks[CHOOSE k \in keep : Cardinality({j \in keep : j < k}) = n - 1]]

_to_text(record) ==
    LET docs == record.documents
        from_documents ==
            NonEmpty([k \in 1..Len(docs) |-> DocumentBlock(docs[k], k)])
        from_fields ==
            NonEmpty([k \in 1..Len(common_fields) |->
                         FieldBlock(record, common_fields[k])])
        collected == IF from_documents # <<>> THEN from_documents
                     ELSE from_fields
    IN  Strip(Join(collected, <<"\n", "\n">>))

NoContentSentinel == Chars("No medical document content provided.")

\* A variant of the emptiness test that never sees an empty corpus.
NoContentNever(documents_text) == FALSE

\* `if not documents_text`
NoContent(documents_text) == documents_text = <<>>

ErrorPrefix == Chars("Error generating summary:")

\* A variant of the handler of lines 119-123 that returns the bare message.
InferenceErrorTextBare(exc) == exc

\* return f"Error generating summary: {exc}"
InferenceErrorText(exc) == ErrorPrefix \o <<" ">> \o exc

(***************************************************************************)
(* OllamaService.generate_patient_summary_with_sources                     *)
(***************************************************************************)

NoneValue == "<None>"

\* `for doc in patient_data.get("individualDocuments", [])` raises when the
\* value is not iterable.
Malformed(pd) ==
    "individualDocuments" \in DOMAIN pd /\ pd.individualDocuments = NoneValue

MalformedMessage == Chars("'NoneType' object is not iterable")

\* documents = [...] of the docs with a truthy textContent
BuildDocuments(pd) ==
    LET given == IF "individualDocuments" \in DOMAIN pd
                 THEN pd.individualDocuments ELSE <<>>
        keep == {k \in 1..Len(given) : given[k].textContent # ""}
    IN  [n \in 1..Cardinality(keep) |->
            LET doc == given[CHOOSE k \in keep :
                                 Cardinality({j \in keep : j < k}) = n - 1]
            IN  [content |-> doc.textContent,
                 title |-> doc.fileName,
                 type |-> doc.documentType]]

\* patient_info = {...}
PatientInfo(pd, docs) ==
    [documents |-> docs,
     patient_id |-> IF "patientId" \in DOMAIN pd THEN pd.patientId ELSE "",
     patient_name |-> IF "patientName" \in DOMAIN pd THEN pd.patientName ELSE "",
     patient_dob |-> "", patient_gender |-> "", admission_date |-> "",
     room_number |-> "", document_count |-> 0, document_types |-> <<>>,
     total_text_length |-> 0, processing_metadata |-> <<>>]

SourceTrackingMarker == Chars("SOURCE_TRACKING_ENABLED: YES")

\* source_patterns[v] tried at position i of t: [start, code, content, end]
\* of the match, or start = 0.
\*   1  \[([A-Z&]+):\s*([^\]]+)\]      2  \[([A-Z&]+):([^\]]+)\]
\*   3, 4  \[([A-Z&]+)\s*:\s*([^\]]+)\]
\* [A-Z&]+ and [^\]]+ are greedy and can only end where the next character
\* of the pattern stands; \s* before the content gives its last character
\* back when the content would otherwise be empty.
NoTag == [start |-> 0, code |-> <<>>, content |-> <<>>, end |-> 0]

\* The tag that starts at i, given where its code, colon and bracket are.
TagClose(t, i, v, code_end, colon, close) ==
    IF close > Len(t) \/ close - 1 < colon + 1 THEN NoTag
    ELSE [start |-> i, code |-> SubSeq(t, i + 1, code_end),
          content |->
              SubSeq(t, IF v = 2 THEN colon + 1
                        ELSE IF RunEnd(t, colon + 1, Whitespace) + 1 < close
                        THEN RunEnd(t, colon + 1, Whitespace) + 1
                        ELSE close - 1,
                     close - 1),
          end |-> close]

TagColon(t, i, v, code_end, colon) ==
    IF colon > Len(t) THEN NoTag
    ELSE IF t[colon] # ":" THEN NoTag
    ELSE TagClose(t, i, v, code_end, colon, FindChar(t, colon + 1, "]"))

TagCode(t, i, v, code_end) ==
    IF code_end < i + 1 THEN NoTag
    ELSE TagColon(t, i, v, code_end,
                  IF v \in {3, 4} THEN RunEnd(t, code_end + 1, Whitespace) + 1
                  ELSE code_end + 1)

TagMatchAt(t, i, v) ==
    IF t[i] # "[" THEN NoTag
    ELSE TagCode(t, i, v, RunEnd(t, i + 1, TagCodeChars))

\* The match at the leftmost of the given start positions.
LeftmostTag(t, v, starts) ==
    IF starts = {} THEN NoTag ELSE TagMatchAt(t, MinOf(starts), v)

\* re.search of source_patterns[v] from position i
NextTag(t, i, v) ==
    LeftmostTag(t, v, {j \in {b \in i..Len(t) : t[b] = "["} :
                          TagMatchAt(t, j, v) # NoTag})

\* The (code, content) pairs re.findall returns for source_patterns[v] from
\* position i: leftmost first, not overlapping; FoundAfter is the list
\* given the next match m.
RECURSIVE Found(_, _, _)
FoundAfter(t, v, m) ==
    IF m.start = 0 THEN <<>>
    ELSE <<(<<m.code, m.content>>)>> \o Found(t, m.end + 1, v)

Found(t, i, v) == FoundAfter(t, v, NextTag(t, i, v))

\* matches = []; for pattern in source_patterns: matches.extend(findall)
PooledMatches(t) ==
    Found(t, 1, 1) \o Found(t, 1, 2) \o Found(t, 1, 3) \o Found(t, 1, 4)

\* A variant of the de-duplication whose `seen` set holds the codes only.
UniqueMatchesByCode(found) ==
    LET firsts == {k \in 1..Len(found) :
                      \A j \in 1..(k - 1) : found[j][1] # found[k][1]}
    IN  [n \in 1..Cardinality(firsts) |->
            found[CHOOSE k \in firsts :
                      Cardinality({j \in firsts : j < k}) = n - 1]]

\* Remove duplicates while preserving order
UniqueMatches(found) ==
    LET firsts == {k \in 1..Len(found) :
                      \A j \in 1..(k - 1) : found[j] # found[k]}
    IN  [n \in 1..Cardinality(firsts) |->
            found[CHOOSE k \in firsts :
                      Cardinality({j \in firsts : j < k}) = n - 1]]

source_mapping ==
    [LAB |-> "Lab Results", RAD |-> "Radiology Report",
     PROG |-> "Progress Notes", DISCH |-> "Discharge Instructions",
     MED |-> "Medication List", VITALS |-> "Vital Signs",
     CONSULT |-> "Consultation Notes", SURG |-> "Surgery Notes",
     ED |-> "Emergency Department Notes", NURSING |-> "Nursing Notes",
     PATH |-> "Pathology Report", PE |-> "Physical Examination",
     OP |-> "Operative Report", SYSTEM |-> "System Generated"]
    @@ ("H&P" :> "History and Physical")

\* A variant of the lookup without the default: a code that is not in the
\* table resolves to 'Unknown'.
FullTypeStrict(source_type) ==
    IF source_type \in DOMAIN source_mapping THEN source_mapping[source_type]
    ELSE "Unknown"

\* source_mapping.get(source_type, source_type)
FullType(source_type) ==
    IF source_type \in DOMAIN source_mapping THEN source_mapping[source_type]
    ELSE source_type

RECURSIVE SumTo(_, _)
SumTo(f, n) == IF n = 0 THEN 0 ELSE f[n] + SumTo(f, n - 1)

\* A variant of the loop that adds len(content), not len(content.strip()).
SourceUsageUntrimmed(unique) ==
    LET full == [k \in 1..Len(unique) |-> FullType(Str(unique[k][1]))]
    IN  [ft \in {full[k] : k \in 1..Len(unique)} |->
            SumTo([k \in 1..Len(unique) |->
                      IF full[k] = ft THEN Len(unique[k][2]) ELSE 0],
                  Len(unique))]

\* source_usage after the loop over the unique matches
SourceUsage(unique) ==
    LET full == [k \in 1..Len(unique) |-> FullType(Str(unique[k][1]))]
    IN  [ft \in {full[k] : k \in 1..Len(unique)} |->
            SumTo([k \in 1..Len(unique) |->
                      IF full[k] = ft THEN Len(Strip(unique[k][2])) ELSE 0],
                  Len(unique))]

MaxKeyContent == 30
MaxSourceDocument == 500

Prefix(cs, n) == SubSeq(cs, 1, IF Len(cs) < n THEN Len(cs) ELSE n)

\* attribution_key = f"{source_type}_{content[:30].replace(' ', '_')}"
AttributionKey(match) ==
    Str(match[1] \o <<"_">>
        \o ReplaceChar(Prefix(match[2], MaxKeyContent), " ", "_"))

\* A variant of the record that compares the document types as they are
\* written.
AttributionCaseSensitive(match, docs) ==
    LET full_type == FullType(Str(match[1]))
        hits == {k \in 1..Len(docs) : docs[k].type = full_type}
        source_doc_content == IF hits = {} THEN "" ELSE docs[MinOf(hits)].content
    IN  [source_type |-> Str(match[1]),
         full_type |-> full_type,
         content |-> Str(Strip(match[2])),
         source_document |->
             IF source_doc_content # ""
             THEN Str(Prefix(Chars(source_doc_content), MaxSourceDocument))
             ELSE "Source document not found"]

\* The record stored for one match
Attribution(match, docs) ==
    LET full_type == FullType(Str(match[1]))
        hits == {k \in 1..Len(docs) :
                    Lower(Chars(docs[k].type)) = Lower(Chars(full_type))}
        source_doc_content == IF hits = {} THEN "" ELSE docs[MinOf(hits)].content
    IN  [source_type |-> Str(match[1]),
         full_type |-> full_type,
         content |-> Str(Strip(match[2])),
         source_document |->
             IF source_doc_content # ""
             THEN Str(Prefix(Chars(source_doc_content), MaxSourceDocument))
             ELSE "Source document not found"]

\* source_attributions after the loop: a later match with the same key
\* overwrites an earlier one.
SourceAttributions(unique, docs) ==
    LET key == [k \in 1..Len(unique) |-> AttributionKey(unique[k])]
    IN  [a \in {key[k] : k \in 1..Len(unique)} |->
            Attribution(unique[MaxOf({k \in 1..Len(unique) : key[k] = a})],
                        docs)]

\* re.sub(source_patterns[0], r'\2', summary) from position i;
\* StripAfter is the text from i on, given the next match m.
RECURSIVE StripTags(_, _)
StripAfter(t, i, m) ==
    IF m.start = 0 THEN SubSeq(t, i, Len(t))
    ELSE SubSeq(t, i, m.start - 1) \o m.content \o StripTags(t, m.end + 1)

StripTags(t, i) == StripAfter(t, i, NextTag(t, i, 1))

\* Whether the fallback tagger is invoked on `summary` (lines 263-268).
FallbackInvoked(summary) == ~Contains(summary, SourceTrackingMarker)

\* `summary` after lines 263-268
TaggedText(summary) ==
    IF FallbackInvoked(summary) THEN _inject_source_tags_fallback(summary)
    ELSE summary

\* sum(d.values()) over the keys in S
RECURSIVE SumValues(_, _)
SumValues(d, S) ==
    IF S = {} THEN 0
    ELSE LET k == CHOOSE k \in S : TRUE
         IN  d[k] + SumValues(d, S \ {k})

\* The record returned at lines 355-365.
Outcome(clean_summary, highlighted_summary, source_usage, source_attributions) ==
    [summary |-> Str(clean_summary),
     highlighted_summary |-> Str(highlighted_summary),
     source_usage |-> source_usage,
     source_attributions |-> source_attributions,
     total_characters |-> Len(clean_summary),
     source_character_count |-> SumValues(source_usage, DOMAIN source_usage)]

\* Lines 302-365, for the unique matches found in the tagged text.
Attributed(summary, tagged, unique, docs) ==
    Outcome(_clean_document_formatting(StripTags(tagged, 1)),
            _clean_document_formatting(summary),
            SourceUsage(unique), SourceAttributions(unique, docs))

\* Lines 254-365: what is returned for the text `summary` that
\* generate_discharge_summary_from_object gave back; `tagged` is that text
\* after lines 263-268.
BuildOutcome(summary, tagged, docs) ==
    Attributed(summary, tagged, UniqueMatches(PooledMatches(tagged)), docs)

\* A variant of the handler of lines 367-376 that lets the exception reach
\* the caller.
ErrorOutcomeRaises(message) == [raised |-> Str(message)]

\* Lines 367-376: what is returned when an exception reaches the handler.
ErrorOutcome(message) ==
    [summary |-> Str(Chars("Error generating summary: ") \o message),
     highlighted_summary |->
         Str(Chars("Error generating summary: ") \o message),
     source_usage |-> <<>>,
     source_attributions |-> <<>>,
     total_characters |-> 0,
     source_character_count |-> 0]

(***************************************************************************)
(* Decoration cleanup applied on its own, once and then to its own result  *)
(***************************************************************************)

None == "<none>"

\* All strings of at most n characters over an alphabet.
StringsUpTo(alphabet, n) ==
    UNION {{Str(cs) : cs \in [1..k -> alphabet]} : k \in 0..n}

MaxCleanLen == 6
CleanAlphabet == {"*", "-", " ", "\n", "a"}

PipelineIdle ==
    /\ patient_data = None
    /\ documents = <<>>
    /\ corpus = None
    /\ llm_calls = 0
    /\ llm_result = None
    /\ raw_text = None
    /\ fallback_ran = FALSE
    /\ tagged_text = None
    /\ pooled = <<>>
    /\ matches = <<>>
    /\ outcome = None

pipelineVars == <<patient_data, documents, corpus, llm_calls, llm_result,
                  raw_text, fallback_ran, tagged_text, pooled, matches,
                  outcome>>

InitClean ==
    /\ pc = "clean_input"
    /\ fn_in \in StringsUpTo(CleanAlphabet, MaxCleanLen)
    /\ fn_once = None
    /\ fn_twice = None
    /\ ViewsIdle
    /\ PipelineIdle

CleanFirst ==
    /\ pc = "clean_input"
    /\ fn_once' = Str(_clean_document_formatting(Chars(fn_in)))
    /\ pc' = "clean_once"
    /\ UNCHANGED <<fn_in, fn_twice, pipelineVars, viewVars>>

CleanSecond ==
    /\ pc = "clean_once"
    /\ fn_twice' = Str(_clean_document_formatting(Chars(fn_once)))
    /\ pc' = "clean_twice"
    /\ UNCHANGED <<fn_in, fn_once, pipelineVars, viewVars>>

NextClean == CleanFirst \/ CleanSecond

SpecClean == InitClean /\ [][NextClean]_vars

\* C8: decoration cleanup is idempotent: cleaning the cleaned text again
\* gives the cleaned text.
C8_CleanupIdempotent ==
    pc = "clean_twice" => fn_twice = fn_once

(***************************************************************************)
(* Template normalization applied on its own, once and then to its result  *)
(***************************************************************************)

\* All concatenations of at most n of the given pieces.
RECURSIVE PieceTexts(_, _)
PieceTexts(pieces, n) ==
    IF n = 0 THEN {""}
    ELSE LET shorter == PieceTexts(pieces, n - 1)
         IN  shorter \cup {t \o p : t \in shorter, p \in pieces}

MaxTemplatePieces == 2
TemplatePieces ==
    {"{patient_name}", "{admission_date}", "[Patient Name]", "{PATIENT_NAME}",
     "{blood_type}", "[x]", "IMPORTANT:", "Name: ", "\n"}

InitTemplate ==
    /\ pc = "template_input"
    /\ fn_in \in PieceTexts(TemplatePieces, MaxTemplatePieces)
    /\ fn_once = None
    /\ fn_twice = None
    /\ ViewsIdle
    /\ PipelineIdle

NormalizeFirst ==
    /\ pc = "template_input"
    /\ fn_once' = Str(_clean_template_content(Chars(fn_in)))
    /\ pc' = "template_once"
    /\ UNCHANGED <<fn_in, fn_twice, pipelineVars, viewVars>>

NormalizeSecond ==
    /\ pc = "template_once"
    /\ fn_twice' = Str(_clean_template_content(Chars(fn_once)))
    /\ pc' = "template_twice"
    /\ UNCHANGED <<fn_in, fn_once, pipelineVars, viewVars>>

NextTemplate == NormalizeFirst \/ NormalizeSecond

SpecTemplate == InitTemplate /\ [][NextTemplate]_vars

\* C9: template normalization is idempotent: normalizing the normalized
\* template again changes nothing (the directive block is not prepended a
\* second time).
C9_TemplateIdempotent ==
    pc = "template_twice" => fn_twice = fn_once

(***************************************************************************)
(* The fallback tagger applied on its own to labelled lines                *)
(***************************************************************************)

\* The labels a row of patterns_to_tag matches, in lower case.
RowLabels(p) ==
    IF p.opt = "" THEN {p.label} ELSE {p.label, p.label \o <<p.opt>>}

\* The summaries the tagger is applied to: 'label: value' for every label
\* of the table, and texts of two lines.
FallbackTexts ==
    {Str(l) \o ": " \o v :
        l \in UNION {RowLabels(patterns_to_tag[r]) :
                        r \in DOMAIN patterns_to_tag},
        v \in {"120/80", "none", "Not documented", " "}}
    \cup {"Blood Pressure: 120/80\nMedications: none",
          "Medications: Not documented", "Medications:\nAspirin",
          "Dosage: 5mg", "Contact: Dr Smith", "Note the BP: 120/80 today",
          "Blood Pressure:\nstable", "Plan\nfollows", "Blood Pressure: \n\nstable"}

InitFallback ==
    /\ pc = "fallback_input"
    /\ fn_in \in FallbackTexts
    /\ fn_once = None
    /\ fn_twice = None
    /\ ViewsIdle
    /\ PipelineIdle

InjectTags ==
    /\ pc = "fallback_input"
    /\ fn_once' = Str(_inject_source_tags_fallback(Chars(fn_in)))
    /\ pc' = "fallback_done"
    /\ UNCHANGED <<fn_in, fn_twice, pipelineVars, viewVars>>

NextFallback == InjectTags

SpecFallback == InitFallback /\ [][NextFallback]_vars

\* The rows of the table whose label is the text before the first colon of
\* the line.
RowsOfLine(line) ==
    {r \in DOMAIN patterns_to_tag :
        Lower(SubSeq(line, 1, FindChar(line, 1, ":") - 1))
            \in RowLabels(patterns_to_tag[r])}

\* What a labelled line is to become: 'Label: [CODE: value]' when the
\* trimmed value is not empty and is not 'Not documented', else the line.
ExpectedLine(line, code) ==
    Tagged(SubSeq(line, 1, FindChar(line, 1, ":") - 1),
           Strip(SubSeq(line, FindChar(line, 1, ":") + 1, Len(line))),
           line, code)

LinesAsExpected(lines_in, lines_out) ==
    /\ Len(lines_out) = Len(lines_in)
    /\ \A k \in DOMAIN lines_in :
          \A r \in RowsOfLine(lines_in[k]) :
              lines_out[k] = ExpectedLine(lines_in[k], patterns_to_tag[r].code)

\* C11: every line 'Label: value' whose label is in the pattern table with
\* code C is rewritten by the fallback tagger to 'Label: [C: value]' when
\* the trimmed value is not empty and is not 'Not documented', and is left
\* as it is otherwise; the other lines stay lines of their own.
C11_LabelledLineTagged ==
    pc = "fallback_done" =>
        LinesAsExpected(Split(Chars(fn_in), "\n"), Split(Chars(fn_once), "\n"))

(***************************************************************************)
(* check_ollama_health against every answer of the probe                   *)
(***************************************************************************)

MaxModels == 2
ProbeStatusCodes == {200, 201, 404, 500, 503}
ModelNames == {"llama3", "mistral", None}

\* What response.json() gives: a 'models' list of dicts (named by their
\* 'name', None when the key is missing), an object without 'models', or a
\* body that is not JSON, for which json() raises.
ProbeBodies ==
    [kind : {"models"},
     models : UNION {[1..k -> ModelNames] : k \in 0..MaxModels}]
    \cup {[kind |-> "no_models", models |-> <<>>],
          [kind |-> "not_json", models |-> <<>>]}

\* What requests.get does: it returns a response or raises.
Probes ==
    [kind : {"response"}, status_code : ProbeStatusCodes, body : ProbeBodies]
    \cup [kind : {"ConnectionError", "Timeout", "Exception"},
          status_code : {0}, body : {[kind |-> "not_json", models |-> <<>>]}]

NotJsonText == "Expecting value: line 1 column 1 (char 0)"
ProbeErrorText == "probe failed"

HealthReport(status, message, models) ==
    [status |-> status, message |-> message,
     available_models |-> models, model_count |-> Len(models)]

ModelName(model) == IF model = None THEN "unknown" ELSE model

check_ollama_health(probe) ==
    CASE probe.kind = "ConnectionError" ->
           HealthReport("unhealthy",
               "Cannot connect to Ollama service at localhost:11434", <<>>)
      [] probe.kind = "Timeout" ->
           HealthReport("unhealthy", "Ollama service connection timed out", <<>>)
      [] probe.kind = "Exception" ->
           HealthReport("unhealthy",
               "Error checking Ollama health: " \o ProbeErrorText, <<>>)
      [] probe.kind = "response" /\ probe.status_code # 200 ->
           HealthReport("unhealthy",
               "Ollama API returned status " \o ToString(probe.status_code), <<>>)
      [] probe.kind = "response" /\ probe.status_code = 200
            /\ probe.body.kind = "not_json" ->
           HealthReport("unhealthy",
               "Error checking Ollama health: " \o NotJsonText, <<>>)
      [] OTHER ->
           [status |-> "healthy", message |-> "Ollama service is running",
            available_models |->
                [k \in DOMAIN probe.body.models |-> ModelName(probe.body.models[k])],
            model_count |-> Len(probe.body.models)]

InitHealth ==
    /\ pc = "health_input"
    /\ fn_in \in Probes
    /\ fn_once = None
    /\ fn_twice = None
    /\ ViewsIdle
    /\ PipelineIdle

CheckHealth ==
    /\ pc = "health_input"
    /\ fn_once' = check_ollama_health(fn_in)
    /\ pc' = "health_done"
    /\ UNCHANGED <<fn_in, fn_twice, pipelineVars, viewVars>>

NextHealth == CheckHealth

SpecHealth == InitHealth /\ [][NextHealth]_vars

\* C23: check_ollama_health never raises and reports 'healthy' exactly when
\* the probe answers with HTTP 200, 'unhealthy' when it answers with another
\* status, and 'unreachable' when the endpoint cannot be reached (connection
\* refused or timeout); no pipeline state changes.
C23_HealthTriState ==
    pc = "health_done" =>
        /\ fn_once.status \in {"healthy", "unhealthy", "unreachable"}
        /\ fn_once.status = "healthy"
               <=> (fn_in.kind = "response" /\ fn_in.status_code = 200)
        /\ (fn_in.kind = "response" /\ fn_in.status_code # 200)
               => fn_once.status = "unhealthy"
        /\ fn_in.kind \in {"ConnectionError", "Timeout"}
               => fn_once.status = "unreachable"
        /\ PipelineIdle

(***************************************************************************)
(* One invocation of generate_patient_summary_with_sources                 *)
(***************************************************************************)

LabDocument ==
    [textContent |-> "Troponin 2.5 elevated", fileName |-> "lab.pdf",
     documentType |-> "Lab Results"]
ProgressDocument ==
    [textContent |-> "Patient Name: John", fileName |-> "notes.txt",
     documentType |-> "progress notes"]
EmptyDocument ==
    [textContent |-> "", fileName |-> "scan.png", documentType |-> "Radiology Report"]
BlankDocument ==
    [textContent |-> " ", fileName |-> "blank.txt", documentType |-> "Nursing Notes"]
\* A document longer than the part of it an attribution record keeps, its
\* type written in capitals.
LongDocument ==
    [textContent |->
         Str([i \in 1..(MaxSourceDocument + 20) |->
                 IF i <= MaxSourceDocument THEN "a" ELSE "b"]),
     fileName |-> "long.txt", documentType |-> "LAB RESULTS"]

PatientInputs ==
    {[individualDocuments |-> NoneValue, patientId |-> "p0"],
     [patientId |-> "p1"],
     [individualDocuments |-> <<>>, patientId |-> "p2", history |-> "chest pain"],
     [individualDocuments |-> <<EmptyDocument>>, patientId |-> "p3"],
     [individualDocuments |-> <<LabDocument>>, patientId |-> "p4"],
     [individualDocuments |-> <<ProgressDocument, EmptyDocument, LabDocument>>,
      patientId |-> "p5"],
     [individualDocuments |-> <<BlankDocument>>, patientId |-> "p6"],
     [individualDocuments |-> <<LongDocument, LabDocument>>, patientId |-> "p7"]}

MaxRawPieces == 3
RawPieces ==
    {"[LAB: Troponin 2.5 elevated]", "[LAB: [MED: x]]", "Patient Name: John",
     "SOURCE_TRACKING_ENABLED: YES", " ", "\n* "}

\* Answers with tags in the other forms the extractor accepts.
TagTexts ==
    {"[LAB : x]", "SOURCE_TRACKING_ENABLED: YES [MED : aspirin] [LAB:y]",
     "Blood Pressure: 120/80", "[XYZ: q]",
     "SOURCE_TRACKING_ENABLED: YES [LAB: a][RAD: a][PROG: a][DISCH: a][MED: a]"
         \o "[VITALS: a][CONSULT: a][SURG: a][ED: a][NURSING: a][PATH: a]"
         \o "[PE: a][H&P: a][OP: a][SYSTEM: a][XYZ: a]",
     "SOURCE_TRACKING_ENABLED: YES [LAB: Troponin 2.5 elevated at admission]"
         \o " [LAB: Troponin 2.5 elevated at admission, then 0.4]",
     "[lab: x]", "[pe: x]", "[LAB1: x]",
     "SOURCE_TRACKING_ENABLED: YES [lab: x] [pe: x] [LAB1: x]"}

\* What the model may answer, and what an exception of the call may say.
ModelTexts == PieceTexts(RawPieces, MaxRawPieces) \cup TagTexts

Init ==
    /\ pc = "idle"
    /\ PipelineIdle
    /\ fn_in = None
    /\ fn_once = None
    /\ fn_twice = None
    /\ ViewsIdle

\* A list of (code, content) pairs as pairs of strings.
Pairs(found) == [k \in DOMAIN found |-> <<Str(found[k][1]), Str(found[k][2])>>]

\* Lines 253-365 for the text generate_discharge_summary_from_object
\* returned.
Finish(summary, docs) ==
    \E tagged \in {TaggedText(summary)} :
        /\ raw_text' = Str(summary)
        /\ fallback_ran' = FallbackInvoked(summary)
        /\ tagged_text' = Str(tagged)
        /\ pooled' = Pairs(PooledMatches(tagged))
        /\ matches' = Pairs(UniqueMatches(PooledMatches(tagged)))
        /\ outcome' = BuildOutcome(summary, tagged, docs)
        /\ pc' = "done"

\* The call, up to chain.invoke (lines 196-251 and 43-115): an input that
\* makes line 199 raise ends in the handler of line 367; no content ends
\* with the sentinel text, without a call of the model.
CallGenerate ==
    \E pd \in PatientInputs :
        /\ pc = "idle"
        /\ patient_data' = pd
        /\ IF Malformed(pd)
           THEN /\ outcome' = ErrorOutcome(MalformedMessage)
                /\ pc' = "done"
                /\ UNCHANGED <<documents, corpus, llm_calls, llm_result,
                               raw_text, fallback_ran, tagged_text, pooled,
                               matches>>
           ELSE LET docs == BuildDocuments(pd)
                    documents_text == _to_text(PatientInfo(pd, docs))
                IN  /\ documents' = docs
                    /\ corpus' = Str(documents_text)
                    /\ IF NoContent(documents_text)
                       THEN /\ Finish(NoContentSentinel, docs)
                            /\ UNCHANGED <<llm_calls, llm_result>>
                       ELSE /\ llm_calls' = llm_calls + 1
                            /\ pc' = "inference"
                            /\ UNCHANGED <<llm_result, raw_text, fallback_ran,
                                           tagged_text, pooled, matches,
                                           outcome>>
        /\ UNCHANGED <<fn_in, fn_once, fn_twice, viewVars>>

\* chain.invoke returns text (lines 112-117), and the rest of the call.
InferenceReturns ==
    /\ pc = "inference"
    /\ \E text \in ModelTexts :
        /\ llm_result' = "text"
        /\ Finish(Chars(text), documents)
        /\ UNCHANGED <<patient_data, documents, corpus, llm_calls,
                       fn_in, fn_once, fn_twice, viewVars>>

\* A variant of the failing call that tries the model again.
InferenceFailsRetry ==
    /\ pc = "inference"
    /\ llm_calls < 2
    /\ llm_calls' = llm_calls + 1
    /\ UNCHANGED <<pc, patient_data, documents, corpus, llm_result, raw_text,
                   fallback_ran, tagged_text, pooled, matches, outcome, fn_in,
                   fn_once, fn_twice, viewVars>>

\* chain.invoke raises (lines 119-123), and the rest of the call.
InferenceFails ==
    /\ pc = "inference"
    /\ \E exc \in ModelTexts :
        /\ llm_result' = "exception"
        /\ Finish(InferenceErrorText(Chars(exc)), documents)
        /\ UNCHANGED <<patient_data, documents, corpus, llm_calls,
                       fn_in, fn_once, fn_twice, viewVars>>

Next == CallGenerate \/ InferenceReturns \/ InferenceFails

Spec == Init /\ [][Next]_vars

(***************************************************************************)
(* Two invocations for different patients, their steps interleaved: every  *)
(* variable of the pipeline holds one value per invocation, as the locals  *)
(* of a call do                                                            *)
(***************************************************************************)

Invocations == {1, 2}

PairPatients == {pd \in PatientInputs : pd.patientId \in {"p0", "p2", "p4", "p5", "p7"}}

PairTexts == {"SOURCE_TRACKING_ENABLED: YES [MED : aspirin] [LAB:y]", "[pe: x]"}

\* A variant of the read of `documents` in which the list is one object all
\* invocations share.
DocumentsOfShared(i) == documents[CHOOSE j \in Invocations : TRUE]

\* The list `documents` invocation i built at lines 196-205, as lines
\* 325-339 read it after the model answered.
DocumentsOf(i) == documents[i]

InitPair ==
    /\ pc = [i \in Invocations |-> "idle"]
    /\ patient_data = [i \in Invocations |-> None]
    /\ documents = [i \in Invocations |-> <<>>]
    /\ corpus = [i \in Invocations |-> None]
    /\ llm_calls = [i \in Invocations |-> 0]
    /\ llm_result = [i \in Invocations |-> None]
    /\ raw_text = [i \in Invocations |-> None]
    /\ fallback_ran = [i \in Invocations |-> FALSE]
    /\ tagged_text = [i \in Invocations |-> None]
    /\ pooled = [i \in Invocations |-> <<>>]
    /\ matches = [i \in Invocations |-> <<>>]
    /\ outcome = [i \in Invocations |-> None]
    /\ fn_in = None
    /\ fn_once = None
    /\ fn_twice = None
    /\ ViewsIdle

\* Lines 253-365 in invocation i.
FinishOf(i, summary, docs) ==
    \E tagged \in {TaggedText(summary)} :
        /\ raw_text' = [raw_text EXCEPT ![i] = Str(summary)]
        /\ fallback_ran' = [fallback_ran EXCEPT ![i] = FallbackInvoked(summary)]
        /\ tagged_text' = [tagged_text EXCEPT ![i] = Str(tagged)]
        /\ pooled' = [pooled EXCEPT ![i] = Pairs(PooledMatches(tagged))]
        /\ matches' = [matches EXCEPT ![i] = Pairs(UniqueMatches(PooledMatches(tagged)))]
        /\ outcome' = [outcome EXCEPT ![i] = BuildOutcome(summary, tagged, docs)]
        /\ pc' = [pc EXCEPT ![i] = "done"]

\* Lines 196-251 in one of the invocations, for a patient the other one
\* does not work on.
StartPair ==
    \E i \in Invocations, pd \in PairPatients :
        /\ pc[i] = "idle"
        /\ \A j \in Invocations \ {i} :
              IF pc[j] = "idle" THEN TRUE
              ELSE patient_data[j].patientId # pd.patientId
        /\ patient_data' = [patient_data EXCEPT ![i] = pd]
        /\ IF Malformed(pd)
           THEN /\ outcome' = [outcome EXCEPT ![i] = ErrorOutcome(MalformedMessage)]
                /\ pc' = [pc EXCEPT ![i] = "done"]
                /\ UNCHANGED <<documents, corpus, llm_calls, llm_result,
                               raw_text, fallback_ran, tagged_text, pooled,
                               matches>>
           ELSE LET docs == BuildDocuments(pd)
                    documents_text == _to_text(PatientInfo(pd, docs))
                IN  /\ documents' = [documents EXCEPT ![i] = docs]
                    /\ corpus' = [corpus EXCEPT ![i] = Str(documents_text)]
                    /\ IF NoContent(documents_text)
                       THEN /\ FinishOf(i, NoContentSentinel, docs)
                            /\ UNCHANGED <<llm_calls, llm_result>>
                       ELSE /\ llm_calls' = [llm_calls EXCEPT ![i] = @ + 1]
                            /\ pc' = [pc EXCEPT ![i] = "inference"]
                            /\ UNCHANGED <<llm_result, raw_text, fallback_ran,
                                           tagged_text, pooled, matches,
                                           outcome>>
        /\ UNCHANGED <<fn_in, fn_once, fn_twice, viewVars>>

\* chain.invoke returns text to one of the invocations.
ReturnsPair ==
    \E i \in Invocations, text \in PairTexts :
        /\ pc[i] = "inference"
        /\ llm_result' = [llm_result EXCEPT ![i] = "text"]
        /\ FinishOf(i, Chars(text), DocumentsOf(i))
        /\ UNCHANGED <<patient_data, documents, corpus, llm_calls,
                       fn_in, fn_once, fn_twice, viewVars>>

\* chain.invoke raises in one of the invocations.
FailsPair ==
    \E i \in Invocations, exc \in PairTexts :
        /\ pc[i] = "inference"
        /\ llm_result' = [llm_result EXCEPT ![i] = "exception"]
        /\ FinishOf(i, InferenceErrorText(Chars(exc)), DocumentsOf(i))
        /\ UNCHANGED <<patient_data, documents, corpus, llm_calls,
                       fn_in, fn_once, fn_twice, viewVars>>

NextPair == StartPair \/ ReturnsPair \/ FailsPair

SpecPair == InitPair /\ [][NextPair]_vars

\* What an invocation run alone returns for the input pd when
\* generate_discharge_summary_from_object gives the text raw.
AloneOutcome(pd, raw) ==
    IF Malformed(pd) THEN ErrorOutcome(MalformedMessage)
    ELSE BuildOutcome(Chars(raw), TaggedText(Chars(raw)), BuildDocuments(pd))

\* C25: invocations for different patients are independent: under every
\* interleaving of their steps, the outcome of each one is the outcome it
\* gives when run alone with the same input and the same model answer.
C25_InvocationsIndependent ==
    \A i \in Invocations :
        pc[i] = "done" => outcome[i] = AloneOutcome(patient_data[i], raw_text[i])

\* Both invocations were waiting for the model at the same time, and both
\* have returned, with different attributions.
C25_Witness ==
    /\ \A i \in Invocations : pc[i] = "done" /\ llm_calls[i] = 1
    /\ outcome[1].source_attributions # outcome[2].source_attributions
    /\ documents[1] # documents[2]

(***************************************************************************)
(* The document views of one patient: PatientAddDocumentView.post,         *)
(* PatientDeleteDocumentView.delete and GenerateSummaryView.post.  Each    *)
(* request loads the row with Patient.objects.get and later writes the    *)
(* whole documents field back with patient.save; a server with several     *)
(* workers handles requests between the two steps of another one           *)
(***************************************************************************)

MaxRequests == 3

\* f'/api/patients/{pk}/documents/{n}/content/' for the patient of pk 1
DocumentUrl(n) == "/api/patients/1/documents/" \o ToString(n) \o "/content/"

\* The metadata process_document and upload_document give for the file of
\* request r, with the url PatientAddDocumentView.post writes for a list
\* that holds n documents.
UploadedDocument(r, n) ==
    [documentType |-> "Medical Record",
     fileName |-> "file" \o ToString(r) \o ".txt",
     fileId |-> "id" \o ToString(r),
     fileSize |-> 21,
     fileExtension |-> "txt",
     contentType |-> "text/plain",
     viewerStrategy |-> "text",
     oss_path |-> "doctors/d1/patients/1/Medical Record/id" \o ToString(r) \o ".txt",
     extractedText |-> "Troponin 2.5 elevated",
     hasTextContent |-> TRUE,
     uploadTimestamp |-> "2024-01-01T00:00:00",
     practitionerId |-> "d1",
     url |-> DocumentUrl(n),
     oss_url |-> "https://oss/id" \o ToString(r)]

\* A variant of the loop over the remaining documents that leaves their
\* urls as they are.
ReindexedUrlsKept(docs) == docs

\* The loop of PatientDeleteDocumentView.delete over the remaining
\* documents: a url that holds '/documents/' and '/content/' is written
\* again with the position of its document.
ReindexedUrls(docs) ==
    [i \in DOMAIN docs |->
        IF /\ "url" \in DOMAIN docs[i]
           /\ docs[i].url # NoneValue
           /\ Contains(Chars(docs[i].url), Chars("/documents/"))
           /\ Contains(Chars(docs[i].url), Chars("/content/"))
        THEN [docs[i] EXCEPT !.url = DocumentUrl(i - 1)]
        ELSE docs[i]]

\* Whether prepare_for_ai_analysis raises KeyError for the mapping the view
\* passes: doc['processingStatus'] is read for every document, and
\* processed_data['totalDocuments'] after the loop.
PrepareRaises(processed_data) ==
    \/ \E i \in DOMAIN processed_data.documents :
          "processingStatus" \notin DOMAIN processed_data.documents[i]
    \/ "totalDocuments" \notin DOMAIN processed_data

\* OllamaService.generate_patient_summary for the answer `text` of the
\* model: the summary field of the outcome.
generate_patient_summary(pd, text) ==
    IF Malformed(pd) THEN ErrorOutcome(MalformedMessage).summary
    ELSE IF NoContent(_to_text(PatientInfo(pd, BuildDocuments(pd))))
    THEN BuildOutcome(NoContentSentinel, TaggedText(NoContentSentinel),
                      BuildDocuments(pd)).summary
    ELSE BuildOutcome(Chars(text), TaggedText(Chars(text)),
                      BuildDocuments(pd)).summary

InitViews ==
    /\ pc = "serving"
    /\ workers \in {1, 2}
    /\ patient_documents = <<>>
    /\ requests = [r \in 1..MaxRequests |->
                      [op |-> "none", at |-> "new", loaded |-> <<>>,
                       input |-> None, status |-> 0, document |-> None]]
    /\ PipelineIdle
    /\ fn_in = None
    /\ fn_once = None
    /\ fn_twice = None

\* A worker takes the next request and runs Patient.objects.get(pk=pk,
\* doctor=request.user): 404 for a patient of another doctor, else the
\* request holds its own copy of the row.
PatientGet ==
    \E r \in 1..MaxRequests, op \in {"add", "delete", "generate"},
       owned \in BOOLEAN :
        /\ requests[r].at = "new"
        /\ \A q \in 1..(r - 1) : requests[q].at # "new"
        /\ Cardinality({q \in 1..MaxRequests : requests[q].at = "loaded"})
               < workers
        /\ requests' =
               [requests EXCEPT ![r] =
                   IF owned
                   THEN [@ EXCEPT !.op = op, !.at = "loaded",
                                  !.loaded = patient_documents]
                   ELSE [@ EXCEPT !.op = op, !.at = "done", !.status = 404]]
        /\ UNCHANGED <<pc, workers, patient_documents, pipelineVars,
                       fn_in, fn_once, fn_twice>>

\* PatientAddDocumentView.post after the row is loaded: 400 without a
\* file, 500 when the upload fails, else the document is appended to the
\* loaded list with the url of its position and the list is saved.
AddDocument ==
    \E r \in 1..MaxRequests, file \in {"missing", "upload_fails", "uploaded"} :
        /\ requests[r].at = "loaded"
        /\ requests[r].op = "add"
        /\ IF file = "uploaded"
           THEN LET document == UploadedDocument(r, Len(requests[r].loaded))
                IN  /\ patient_documents' = Append(requests[r].loaded, document)
                    /\ requests' = [requests EXCEPT ![r] =
                           [@ EXCEPT !.at = "done", !.input = file,
                                     !.status = 201, !.document = document]]
           ELSE /\ requests' = [requests EXCEPT ![r] =
                       [@ EXCEPT !.at = "done", !.input = file,
                                 !.status = IF file = "missing" THEN 400 ELSE 500]]
                /\ UNCHANGED patient_documents
        /\ UNCHANGED <<pc, workers, pipelineVars, fn_in, fn_once, fn_twice>>

\* PatientDeleteDocumentView.delete after the row is loaded: 400 for an
\* index outside the loaded list, else the document is popped, the urls of
\* the others are written again and the list is saved.
DeleteDocument ==
    \E r \in 1..MaxRequests, document_index \in 0..(MaxRequests - 1) :
        /\ requests[r].at = "loaded"
        /\ requests[r].op = "delete"
        /\ IF document_index >= Len(requests[r].loaded)
           THEN /\ requests' = [requests EXCEPT ![r] =
                       [@ EXCEPT !.at = "done", !.input = document_index,
                                 !.status = 400]]
                /\ UNCHANGED patient_documents
           ELSE LET docs == requests[r].loaded
                    popped == [i \in 1..(Len(docs) - 1) |->
                                  IF i <= document_index THEN docs[i]
                                  ELSE docs[i + 1]]
                IN  /\ patient_documents' = ReindexedUrls(popped)
                    /\ requests' = [requests EXCEPT ![r] =
                           [@ EXCEPT !.at = "done", !.input = document_index,
                                     !.status = 200,
                                     !.document = docs[document_index + 1]]]
        /\ UNCHANGED <<pc, workers, pipelineVars, fn_in, fn_once, fn_twice>>

\* GenerateSummaryView.post after the row is loaded, for the text the model
\* answers with: 500 when prepare_for_ai_analysis raises or the summary is
\* empty or an error text, else the summary document is appended to the
\* loaded list and the list is saved.
GenerateSummary ==
    \E r \in 1..MaxRequests,
       text \in {"Discharge summary of the stay", "Error generating summary: boom"} :
        /\ requests[r].at = "loaded"
        /\ requests[r].op = "generate"
        /\ LET patient_docs == requests[r].loaded
               processed_data == [patientId |-> "1", documents |-> patient_docs]
           IN  IF PrepareRaises(processed_data)
               THEN /\ requests' = [requests EXCEPT ![r] =
                           [@ EXCEPT !.at = "done", !.input = text,
                                     !.status = 500]]
                    /\ UNCHANGED patient_documents
               ELSE LET success == SelectSeq(patient_docs,
                                       LAMBDA d : d.processingStatus = "success")
                        ai_ready_data ==
                            [patientId |-> "1",
                             individualDocuments |->
                                 [i \in DOMAIN success |->
                                     [fileName |-> success[i].fileName,
                                      documentType |-> success[i].documentType,
                                      textContent |-> success[i].extractedText]]]
                        summary_content ==
                            generate_patient_summary(ai_ready_data, text)
                        summary_doc ==
                            [documentType |-> "Discharge Summary",
                             fileName |-> "Discharge_summary_John_Doe.txt",
                             uploadTimestamp |-> "2024-01-01T00:00:00",
                             url |-> "https://oss/summary",
                             oss_path |-> "doctors/d1/patients/1/discharge_summaries/s",
                             summary |-> summary_content,
                             file_size |-> Len(summary_content)]
                    IN  IF \/ summary_content = ""
                           \/ StartsWith(Chars(summary_content),
                                         Chars("Error generating summary"))
                        THEN /\ requests' = [requests EXCEPT ![r] =
                                    [@ EXCEPT !.at = "done", !.input = text,
                                              !.status = 500]]
                             /\ UNCHANGED patient_documents
                        ELSE /\ patient_documents' = Append(patient_docs, summary_doc)
                             /\ requests' = [requests EXCEPT ![r] =
                                    [@ EXCEPT !.at = "done", !.input = text,
                                              !.status = 200,
                                              !.document = summary_doc]]
        /\ UNCHANGED <<pc, workers, pipelineVars, fn_in, fn_once, fn_twice>>

NextViews == PatientGet \/ AddDocument \/ DeleteDocument \/ GenerateSummary

SpecViews == InitViews /\ [][NextViews]_vars

(***************************************************************************)
(* Properties of one invocation                                            *)
(***************************************************************************)

\* Whether the tag grammar \[[A-Z&]+:\s*[^\]]+\] occurs in a string.
HasTag(text) == NextTag(Chars(text), 1, 1).start # 0

\* The substrings of a string that are tags of that grammar.
TagsOf(text) ==
    {SubSeq(Chars(text), j, TagMatchAt(Chars(text), j, 1).end) :
        j \in {b \in 1..Len(text) : TagMatchAt(Chars(text), b, 1) # NoTag}}

\* Whether a tag opens right inside another one: [CODE: [CODE2: ...
NestedTagAt(t, i, inner) ==
    /\ t[i] = "["
    /\ RunEnd(t, i + 1, TagCodeChars) >= i + 1
    /\ RunEnd(t, i + 1, TagCodeChars) + 1 <= Len(t)
    /\ t[RunEnd(t, i + 1, TagCodeChars) + 1] = ":"
    /\ inner = RunEnd(t, RunEnd(t, i + 1, TagCodeChars) + 2, Whitespace) + 1
    /\ inner + 2 <= Len(t)
    /\ t[inner] = "["
    /\ RunEnd(t, inner + 1, TagCodeChars) >= inner + 1
    /\ RunEnd(t, inner + 1, TagCodeChars) + 1 <= Len(t)
    /\ t[RunEnd(t, inner + 1, TagCodeChars) + 1] = ":"

HasNestedTag(text) ==
    \E i \in 1..Len(text) : \E inner \in (i + 1)..Len(text) :
        NestedTagAt(Chars(text), i, inner)

OutcomeFields ==
    {"summary", "highlighted_summary", "source_usage", "source_attributions",
     "total_characters", "source_character_count"}

\* C1: the summary field of the returned outcome contains no substring of
\* the tag grammar, whatever the documents and whatever text the model
\* returned.
C1_SummaryHasNoTag ==
    pc = "done" => ~HasTag(outcome.summary)

\* C2: the fallback tagger runs only when the raw model text contains no
\* well-formed tag: when the raw text contains a tag, the fallback is not
\* invoked, with or without the marker, and the tags of the raw text appear
\* unchanged in highlighted_summary.
C2_FallbackOnlyWithoutTags ==
    (pc = "done" /\ raw_text # None /\ HasTag(raw_text)) =>
        /\ ~fallback_ran
        /\ \A tag \in TagsOf(raw_text) :
               Contains(Chars(outcome.highlighted_summary), tag)

DuplicatedTagText == "[LAB: Troponin 2.5 elevated] [LAB: Troponin 2.5 elevated]"

\* C3: a tag that occurs twice in the raw model text is counted once: the
\* raw text '[LAB: Troponin 2.5 elevated] [LAB: Troponin 2.5 elevated]'
\* yields source_usage = {'Lab Results': len('Troponin 2.5 elevated')}.
C3_DuplicateTagCountedOnce ==
    (pc = "done" /\ raw_text = DuplicatedTagText) =>
        outcome.source_usage = ("Lab Results" :> Len("Troponin 2.5 elevated"))

\* C4: whatever the input and however the inference call ends, the
\* invocation ends with a mapping that has exactly the six fields of the
\* outcome; no exception reaches the caller.
C4_AlwaysSixFields ==
    pc = "done" => DOMAIN outcome = OutcomeFields

\* An invocation whose input made line 199 raise, and one whose inference
\* call raised, both ended with a six-field outcome.
C4_Witness ==
    /\ pc = "done"
    /\ Malformed(patient_data) \/ llm_result = "exception"
    /\ DOMAIN outcome = OutcomeFields
    /\ StartsWith(Chars(outcome.summary), ErrorPrefix)

\* C5: when the inference call raises, generate_discharge_summary_from_object
\* returns a text that starts with 'Error generating summary:', and the
\* summary of the outcome still starts with it after fallback tagging, tag
\* stripping and decoration cleanup, for every exception message.
C5_ErrorPrefixSurvives ==
    (pc = "done" /\ llm_result = "exception") =>
        /\ StartsWith(Chars(raw_text), ErrorPrefix)
        /\ StartsWith(Chars(outcome.summary), ErrorPrefix)

\* The inference call raised with a message the downstream stages rewrite:
\* the fallback tagged it and the cleanup changed it.
C5_Witness ==
    /\ pc = "done"
    /\ llm_result = "exception"
    /\ fallback_ran
    /\ tagged_text # raw_text
    /\ outcome.summary # raw_text
    /\ StartsWith(Chars(outcome.summary), ErrorPrefix)

\* C6: when no document with text is given, the invocation makes no
\* inference call and the summary of its outcome is exactly
\* 'No medical document content provided.'.
C6_NoContentNoCall ==
    (pc = "done" /\ ~Malformed(patient_data) /\ documents = <<>>) =>
        /\ llm_calls = 0
        /\ outcome.summary = "No medical document content provided."

\* An invocation with an empty document list ended without a call.
C6_Witness ==
    /\ pc = "done"
    /\ ~Malformed(patient_data)
    /\ "individualDocuments" \in DOMAIN patient_data
    /\ Len(patient_data.individualDocuments) = 0
    /\ llm_calls = 0
    /\ outcome.summary = "No medical document content provided."

\* C7: an invocation calls the inference capability at most once: exactly
\* once when the aggregated corpus is not empty, and not a second time after
\* a call that failed.
C7_AtMostOneCall ==
    /\ llm_calls <= 1
    /\ (pc = "done" /\ corpus \notin {None, ""}) => llm_calls = 1
    /\ (pc = "done" /\ llm_result = "exception") => llm_calls = 1

\* An invocation whose only inference call failed has ended.
C7_Witness ==
    /\ pc = "done"
    /\ llm_result = "exception"
    /\ corpus \notin {None, ""}
    /\ llm_calls = 1

\* C10: the fallback tagger never double-wraps: a text without a tag inside
\* a tag has none after the fallback either, also when several labels of
\* the table match the same line ('Patient Name:' and 'Name:').
C10_FallbackNeverNests ==
    (pc = "done" /\ fallback_ran /\ ~HasNestedTag(raw_text)) =>
        ~HasNestedTag(tagged_text)

\* The text with every occurrence the pooled patterns match replaced by its
\* captured content: source_patterns[2] and [3] match every occurrence the
\* other two match, and the form '[CODE : content]' as well.
RECURSIVE StripEvery(_, _)
StripEveryAfter(t, i, m) ==
    IF m.start = 0 THEN SubSeq(t, i, Len(t))
    ELSE SubSeq(t, i, m.start - 1) \o m.content \o StripEvery(t, m.end + 1)

StripEvery(t, i) == StripEveryAfter(t, i, NextTag(t, i, 3))

\* C12: every tag occurrence the extractor matched with any of its pooled
\* patterns, the form '[CODE : content]' included, is replaced in `summary`
\* by its captured content, without code and brackets.
C12_EveryMatchedTagStripped ==
    (pc = "done" /\ tagged_text # None) =>
        outcome.summary =
            Str(_clean_document_formatting(StripEvery(Chars(tagged_text), 1)))

\* C13: summary and highlighted_summary of an outcome come from the same
\* tagged text T, the model's text or what the fallback tagger made of it:
\* highlighted_summary is cleanup(T), with the tags the fallback tagger
\* wrote, and summary is cleanup(strip_tags(T)).
C13_BothFromTaggedText ==
    (pc = "done" /\ tagged_text # None) =>
        /\ outcome.highlighted_summary =
               Str(_clean_document_formatting(Chars(tagged_text)))
        /\ outcome.summary =
               Str(_clean_document_formatting(StripTags(Chars(tagged_text), 1)))

\* The index of the first occurrence of a pair in a list.
FirstIndex(found, pair) == MinOf({k \in DOMAIN found : found[k] = pair})

\* C14: the de-duplication is stable: the list the extractor processes
\* holds every (code, content) pair of the pooled matches exactly once, in
\* the order of the pairs' first occurrences in the pooled list, and two
\* pairs are one only when code and content are both the same.
C14_StableDeduplication ==
    (pc = "done" /\ tagged_text # None) =>
        /\ \A k \in DOMAIN pooled : \E n \in DOMAIN matches : matches[n] = pooled[k]
        /\ \A n \in DOMAIN matches : \E k \in DOMAIN pooled : pooled[k] = matches[n]
        /\ \A n, o \in DOMAIN matches :
              n < o => /\ matches[n] # matches[o]
                       /\ FirstIndex(pooled, matches[n])
                              < FirstIndex(pooled, matches[o])

\* An outcome whose pooled matches repeat pairs and hold two different
\* pairs with the same code.
C14_Witness ==
    /\ pc = "done"
    /\ Len(pooled) > Len(matches)
    /\ \E n, o \in DOMAIN matches :
          n < o /\ matches[n][1] = matches[o][1]

\* The codes of the category table.
TableCodes ==
    {"LAB", "RAD", "PROG", "DISCH", "MED", "VITALS", "CONSULT", "SURG", "ED",
     "NURSING", "PATH", "PE", "H&P", "OP", "SYSTEM"}

\* The category a code is to resolve to.
ResolvedCategory(code) ==
    IF code \in TableCodes THEN source_mapping[code] ELSE code

\* C15: code resolution is total: each of the 15 codes of the table
\* resolves to its category name, and a well-formed tag with any other code
\* is counted in source_usage under the code itself; the outcome is the
\* ordinary six-field outcome, nothing is raised.
C15_CodeResolutionTotal ==
    (pc = "done" /\ tagged_text # None) =>
        /\ DOMAIN source_mapping = TableCodes
        /\ DOMAIN outcome = OutcomeFields
        /\ DOMAIN outcome.source_usage =
               {ResolvedCategory(matches[n][1]) : n \in DOMAIN matches}
        /\ \A n \in DOMAIN matches :
              /\ outcome.source_usage[ResolvedCategory(matches[n][1])]
                     >= Len(Strip(Chars(matches[n][2])))
              /\ \E key \in DOMAIN outcome.source_attributions :
                    /\ outcome.source_attributions[key].source_type
                           = matches[n][1]
                    /\ outcome.source_attributions[key].full_type
                           = ResolvedCategory(matches[n][1])

\* An outcome for a text with a tag of every code of the table and a tag
\* whose code is not in the table.
C15_Witness ==
    /\ pc = "done"
    /\ TableCodes \cup {"XYZ"} \subseteq {matches[n][1] : n \in DOMAIN matches}
    /\ "XYZ" \in DOMAIN outcome.source_usage

\* The documents whose type is the given category, ignoring case.
DocumentsOfType(full_type) ==
    {k \in DOMAIN documents :
        Lower(Chars(documents[k].type)) = Lower(Chars(full_type))}

\* The evidence an attribution record of the given category is to hold.
ExpectedEvidence(full_type) ==
    IF DocumentsOfType(full_type) = {} THEN "Source document not found"
    ELSE LET content == Chars(documents[MinOf(DocumentsOfType(full_type))].content)
         IN  Str(SubSeq(content, 1,
                        IF Len(content) > 500 THEN 500 ELSE Len(content)))

\* C16: the source_document of every attribution record is the first 500
\* characters of the content of the first document, in input order, whose
\* type is the record's full_type ignoring case, and is 'Source document
\* not found' when there is none; the outcome is the ordinary six-field
\* outcome in either case.
C16_AttributionEvidence ==
    (pc = "done" /\ tagged_text # None) =>
        /\ DOMAIN outcome = OutcomeFields
        /\ \A key \in DOMAIN outcome.source_attributions :
              outcome.source_attributions[key].source_document =
                  ExpectedEvidence(outcome.source_attributions[key].full_type)

\* An outcome with a record cut to 500 characters of the first of two
\* documents of its category, and a record of a category without document.
C16_Witness ==
    /\ pc = "done"
    /\ Cardinality(DocumentsOfType("Lab Results")) = 2
    /\ \E hit, miss \in DOMAIN outcome.source_attributions :
          /\ Len(outcome.source_attributions[hit].source_document) = 500
          /\ Len(documents[1].content) > 500
          /\ outcome.source_attributions[miss].source_document
                 = "Source document not found"

\* The record source_attributions holds for the n-th processed tag, at the
\* key of that tag.
RecordOfTag(n) ==
    outcome.source_attributions[
        AttributionKey(<<Chars(matches[n][1]), Chars(matches[n][2])>>)]

\* C17: after extraction source_attributions holds, for every processed
\* tag (code, content), at the key code + '_' + the first 30 characters of
\* content with spaces replaced by underscores, a record whose source_type
\* is the code and whose content is the tag's trimmed content, also when
\* two different tags share the code and the first 30 characters.
C17_RecordForEveryTag ==
    (pc = "done" /\ tagged_text # None) =>
        \A n \in DOMAIN matches :
            /\ AttributionKey(<<Chars(matches[n][1]), Chars(matches[n][2])>>)
                   \in DOMAIN outcome.source_attributions
            /\ RecordOfTag(n).source_type = matches[n][1]
            /\ RecordOfTag(n).content = Str(Strip(Chars(matches[n][2])))

\* The block the aggregator is to render for a source document.
LabelledBlock(doc) ==
    Chars("===== ") \o Chars(doc.title) \o Chars(" (") \o Chars(doc.type)
        \o Chars(") =====\n") \o Chars(doc.content)

\* C18: the aggregator preserves input order: the corpus holds one block
\* '===== {title} ({type}) =====\n{content}' per source document, in the
\* order of the input documents, with exactly one blank line between
\* consecutive blocks.
C18_CorpusInInputOrder ==
    (pc = "done" /\ corpus # None /\ documents # <<>>) =>
        corpus = Str(Join([k \in DOMAIN documents |-> LabelledBlock(documents[k])],
                          <<"\n", "\n">>))

\* Whether every supplied document has empty or whitespace-only content and
\* no well-known context field of the input holds text.
NothingToSummarize ==
    /\ ~Malformed(patient_data)
    /\ "individualDocuments" \in DOMAIN patient_data
    /\ \A k \in DOMAIN patient_data.individualDocuments :
          Strip(Chars(patient_data.individualDocuments[k].textContent)) = <<>>
    /\ \A f \in DOMAIN common_fields :
          ~HasText(patient_data, common_fields[f])

\* C19: when no supplied document has content that is not blank, whatever
\* its title, and no well-known context field holds text, no block is made
\* for the documents, no inference call is made and the summary of the
\* outcome is 'No medical document content provided.'.
C19_BlankDocumentsNoCall ==
    (pc = "done" /\ NothingToSummarize) =>
        /\ corpus = ""
        /\ llm_calls = 0
        /\ outcome.summary = "No medical document content provided."

\* The number of places of s where `needle` occurs.
Occurrences(s, needle) ==
    Cardinality({i \in 1..(Len(s) - Len(needle) + 1) :
                    SubSeq(s, i, i + Len(needle) - 1) = needle})

\* C20: normalizing a template that contains '{patient_name}' and
\* '{admission_date}' and no 'IMPORTANT:' gives a text that contains
\* '[EXTRACT PATIENT NAME FROM DOCUMENTS]' and
\* '[EXTRACT ADMISSION DATE FROM DOCUMENTS]' and contains 'IMPORTANT:'
\* exactly once.
C20_NormalizedTemplateScenario ==
    (/\ pc = "template_once"
     /\ Contains(Chars(fn_in), Chars("{patient_name}"))
     /\ Contains(Chars(fn_in), Chars("{admission_date}"))
     /\ ~Contains(Chars(fn_in), Chars("IMPORTANT:"))) =>
        /\ Contains(Chars(fn_once), Chars("[EXTRACT PATIENT NAME FROM DOCUMENTS]"))
        /\ Contains(Chars(fn_once), Chars("[EXTRACT ADMISSION DATE FROM DOCUMENTS]"))
        /\ Occurrences(Chars(fn_once), Chars("IMPORTANT:")) = 1

\* The rows of the placeholder table that occur at position j of t, in any
\* letter case.
RowsAt(t, j) ==
    {r \in DOMAIN replacements :
        /\ j + Len(replacements[r].pattern) - 1 <= Len(t)
        /\ Lower(SubSeq(t, j, j + Len(replacements[r].pattern) - 1))
               = replacements[r].pattern}

\* The text from position i on in which the occurrences of the table's
\* placeholders, taken from left to right, are replaced and every other
\* character is kept.
RECURSIVE OnlyPlaceholdersReplaced(_, _)
PlaceholderReplacedAt(t, i, starts) ==
    IF starts = {} THEN SubSeq(t, i, Len(t))
    ELSE SubSeq(t, i, MinOf(starts) - 1)
             \o replacements[MinOf(RowsAt(t, MinOf(starts)))].replacement
             \o OnlyPlaceholdersReplaced(t,
                    MinOf(starts)
                        + Len(replacements[MinOf(RowsAt(t, MinOf(starts)))].pattern))

OnlyPlaceholdersReplaced(t, i) ==
    PlaceholderReplacedAt(t, i, {j \in i..Len(t) : RowsAt(t, j) # {}})

\* C21: template normalization leaves what it does not recognize untouched:
\* apart from the directive block it may prepend, its output is its input
\* with the occurrences, in any letter case, of the placeholders of the
\* fixed table replaced; every other '{x}' or '[x]' and all other text is
\* kept character for character.
C21_UnknownTextUntouched ==
    pc = "template_once" =>
        fn_once \in
            {Str(OnlyPlaceholdersReplaced(Chars(fn_in), 1)),
             Str(DirectiveBlock \o OnlyPlaceholdersReplaced(Chars(fn_in), 1))}

\* A normalized template that held a placeholder of the table in capitals,
\* a placeholder that is not in the table, and a trailing blank.
C21_Witness ==
    /\ pc = "template_once"
    /\ \E rest \in {"{blood_type}", "[x]", "Name: "} :
          /\ fn_in \in {"{PATIENT_NAME}" \o rest, rest \o "{PATIENT_NAME}"}
          /\ Contains(Chars(fn_once), Chars(rest))
    /\ Contains(Chars(fn_once), Chars("[EXTRACT PATIENT NAME FROM DOCUMENTS]"))

\* Whether a label of the table, followed by its colon, starts the line.
LabelAtStart(line) ==
    \E r \in DOMAIN patterns_to_tag : LabelEnd(line, 1, patterns_to_tag[r]) # 0

UnlabelledLinesKept(lines_in, lines_out) ==
    Len(lines_out) = Len(lines_in) =>
        \A k \in DOMAIN lines_in :
            ~LabelAtStart(lines_in[k]) => lines_out[k] = lines_in[k]

\* C22: fallback matching is anchored at the line start: a line is
\* rewritten only when a label of the table starts it; a label text in the
\* middle of a line or at the end of a longer word ('age:' in 'Dosage:',
\* 'ct:' in 'Contact:') leaves the line unchanged.
C22_LabelsLineAnchored ==
    pc = "fallback_done" =>
        UnlabelledLinesKept(Split(Chars(fn_in), "\n"), Split(Chars(fn_once), "\n"))

\* Whether the text holds an opening bracket but no tag any of the four
\* patterns of the extractor accepts.
OnlyMalformedTags(text) ==
    /\ \E i \in DOMAIN Chars(text) : Chars(text)[i] = "["
    /\ PooledMatches(Chars(text)) = <<>>

\* C24: a bracketed text whose code has a character outside A-Z and '&'
\* ('[lab: x]', '[pe: x]', '[LAB1: x]') is skipped: it adds nothing to
\* source_usage or source_attributions, and the outcome is a normal one.
C24_MalformedTagSkipped ==
    (pc = "done" /\ raw_text # None /\ OnlyMalformedTags(raw_text)) =>
        /\ DOMAIN outcome = OutcomeFields
        /\ DOMAIN outcome.source_usage = {}
        /\ DOMAIN outcome.source_attributions = {}
        /\ outcome.source_character_count = 0

\* The trimmed lengths of the deduplicated tags, those of the category
\* `full_type` kept and the others put to 0.
TrimmedLengths(full_type) ==
    [n \in DOMAIN matches |->
        IF ResolvedCategory(matches[n][1]) = full_type
        THEN Len(Strip(Chars(matches[n][2]))) ELSE 0]

\* C26: in every returned outcome, on the normal path total_characters is
\* the length of summary, source_character_count is the sum of the values of
\* source_usage, and each value of source_usage is the sum of the trimmed
\* content lengths of the deduplicated tags of its category; on the
\* exception path source_usage and source_attributions are empty and both
\* counts are 0.
C26_CountsConsistent ==
    pc = "done" =>
        IF Malformed(patient_data)
        THEN /\ DOMAIN outcome.source_usage = {}
             /\ DOMAIN outcome.source_attributions = {}
             /\ outcome.total_characters = 0
             /\ outcome.source_character_count = 0
        ELSE /\ outcome.total_characters = Len(Chars(outcome.summary))
             /\ outcome.source_character_count =
                    SumValues(outcome.source_usage, DOMAIN outcome.source_usage)
             /\ DOMAIN outcome.source_usage =
                    {ResolvedCategory(matches[n][1]) : n \in DOMAIN matches}
             /\ \A ft \in DOMAIN outcome.source_usage :
                    outcome.source_usage[ft] =
                        SumValues(TrimmedLengths(ft), DOMAIN matches)

\* An outcome with two categories, one of them fed by several tags, one of
\* which was captured with a space to trim.
C26_Witness ==
    /\ pc = "done"
    /\ ~Malformed(patient_data)
    /\ Cardinality(DOMAIN outcome.source_usage) >= 2
    /\ \E m, n \in DOMAIN matches :
          /\ m # n
          /\ matches[m][1] = matches[n][1]
          /\ Chars(matches[n][2]) # Strip(Chars(matches[n][2]))
    /\ outcome.source_character_count > 0
    /\ outcome.total_characters > 0

\* Whether a label of the table, followed by its colon, occurs in the line.
HasLabel(line) ==
    \E i \in DOMAIN line : \E r \in DOMAIN patterns_to_tag :
        LabelEnd(line, i, patterns_to_tag[r]) # 0

\* Whether the line is a label of the table with nothing but white space
\* after its colon.
LabelWithoutValue(line) ==
    \E r \in DOMAIN patterns_to_tag :
        /\ LabelEnd(line, 1, patterns_to_tag[r]) # 0
        /\ Strip(SubSeq(line, LabelEnd(line, 1, patterns_to_tag[r]) + 2,
                        Len(line))) = <<>>

LineStructureKept(lines_in, lines_out) ==
    /\ Len(lines_out) = Len(lines_in)
    /\ \A k \in DOMAIN lines_in :
          (~HasLabel(lines_in[k]) \/ LabelWithoutValue(lines_in[k]))
              => lines_out[k] = lines_in[k]

\* C27: the fallback tagger keeps the line structure: the output has as
\* many lines as the input, a line without a label of the table is
\* unchanged, and a label with an empty value on its line ('Blood
\* Pressure:' followed by a newline) is unchanged, the next line not being
\* taken as its value.
C27_LineStructurePreserved ==
    pc = "fallback_done" =>
        LineStructureKept(Split(Chars(fn_in), "\n"), Split(Chars(fn_once), "\n"))

\* Whether request r was answered and no later request was answered since,
\* so that patient_documents is what r left.
LatestAnswered(r) ==
    /\ requests[r].at = "done"
    /\ \A q \in (r + 1)..MaxRequests : requests[q].at # "done"

\* C28: for a patient of the requester whose documents came through the
\* add-document view (or who has none), when the model answers with a text
\* that does not start with 'Error generating summary',
\* GenerateSummaryView.post returns 200 and appends exactly one entry of
\* documentType 'Discharge Summary' that carries the summary; when the
\* summary starts with that prefix it returns 500 and patient.documents is
\* unchanged.
C28_SummaryStored ==
    \A r \in DOMAIN requests :
        (/\ workers = 1
         /\ requests[r].op = "generate"
         /\ requests[r].status # 404
         /\ LatestAnswered(r)
         /\ \A d \in DOMAIN requests[r].loaded :
               requests[r].loaded[d].documentType = "Medical Record") =>
            IF StartsWith(Chars(requests[r].input), Chars("Error generating summary"))
            THEN /\ requests[r].status = 500
                 /\ patient_documents = requests[r].loaded
            ELSE /\ requests[r].status = 200
                 /\ Len(patient_documents) = Len(requests[r].loaded) + 1
                 /\ SubSeq(patient_documents, 1, Len(requests[r].loaded))
                        = requests[r].loaded
                 /\ patient_documents[Len(patient_documents)].documentType
                        = "Discharge Summary"
                 /\ patient_documents[Len(patient_documents)].summary # ""

\* Whether the document request r uploaded is in patient.documents, at the
\* position its url names.
StoredAtItsIndex(r) ==
    \E n \in DOMAIN patient_documents :
        /\ patient_documents[n] = requests[r].document
        /\ requests[r].document.url = DocumentUrl(n - 1)

\* C29: no update of the document list is lost: when two add-document
\* requests for the patient both returned 201, however their steps were
\* interleaved, patient.documents holds both uploaded documents, each at
\* the position its url names.
C29_NoLostUpdate ==
    \A r1, r2 \in DOMAIN requests :
        (/\ r1 # r2
         /\ \A q \in DOMAIN requests :
               requests[q].op \in {"none", "add"} \/ requests[q].status = 404
         /\ \A r \in {r1, r2} :
               /\ requests[r].op = "add"
               /\ requests[r].at = "done"
               /\ requests[r].status = 201) =>
            StoredAtItsIndex(r1) /\ StoredAtItsIndex(r2)

\* C30: with requests handled one at a time, after any sequence of
\* add-document and delete-document requests every entry of
\* patient.documents whose url is '/api/patients/{pk}/documents/{n}/content/'
\* is at position n (the delete view writes the urls of the remaining
\* entries again), and a delete with an index outside the list returns 400
\* and leaves patient.documents unchanged.
C30_UrlIndexIsPosition ==
    workers = 1 =>
        /\ \A n \in DOMAIN patient_documents : \A k \in 0..MaxRequests :
              patient_documents[n].url = DocumentUrl(k) => k = n - 1
        /\ \A r \in DOMAIN requests :
              (/\ requests[r].op = "delete"
               /\ requests[r].at = "done"
               /\ requests[r].status # 404
               /\ requests[r].input >= Len(requests[r].loaded)) =>
                  /\ requests[r].status = 400
                  /\ LatestAnswered(r) => patient_documents = requests[r].loaded

\* Two documents were added and the first one deleted: the second one is
\* now the first of the list, its url written again.
C30_Witness ==
    /\ workers = 1
    /\ Len(patient_documents) = 1
    /\ \E q, r \in DOMAIN requests :
          /\ requests[q].op = "add" /\ requests[q].status = 201
          /\ requests[q].document.fileId = patient_documents[1].fileId
          /\ requests[q].document.url = DocumentUrl(1)
          /\ patient_documents[1].url = DocumentUrl(0)
          /\ requests[r].op = "delete" /\ requests[r].status = 200
          /\ LatestAnswered(r)

====
